---- MODULE Spec2Model ----
\* A model of app_server.py: a Flask service that keeps five JSON documents
\* as files (beacon map, path nodes, stock, members, sessions), guards the
\* /api/ paths with a shared secret and offers a checkout that decrements
\* stock, accrues member points and marks the device's session as paid.
\*
\* Conventions of the model
\*   - a Python string that the code tests for truth or compares with None
\*     (device ids, member ids) is a tuple of one-character strings, so that
\*     strip() is computed and None is a value distinct from every string;
\*   - the Authorization header and the secrets are tuples of blocks of
\*     characters, so that "key in auth_header" is a real substring search;
\*   - a file's content is the sequence of chunks json.dump has written to
\*     it; json.load succeeds only on the two chunks of one serialisation;
\*   - money is in cents and points are in hundredths of a point.
EXTENDS Integers, Sequences, FiniteSets, TLC

VARIABLES fs, fs0, LOCK, pc, req, resp, loc, wr, wlog

vars == <<fs, fs0, LOCK, pc, req, resp, loc, wr, wlog>>

\* ---------------------------------------------------------------- bounds

\* Largest quantity of a stock entry and of a cart line.
MaxQty == 2
\* Largest number of lines of a cart.
MaxCartLen == 2
\* Largest number of blocks of an Authorization header.
MaxAuthLen == 3

\* The request threads of the server (one request each).
Threads == {"t1", "t2"}
NoThread == "none"

\* ------------------------------------------------------- Python values

\* Python's None / JSON null.
None == <<"None">>

\* Truth value of a Python string-or-None.
Truthy(x) == x # None /\ x # <<>>

\* dict.get(key, default) on a JSON object.
Get(d, key, default) == IF key \in DOMAIN d THEN d[key] ELSE default

\* d[key] = value on a JSON object / dict.
Put(d, key, value) == [k \in DOMAIN d \cup {key} |-> IF k = key THEN value ELSE d[k]]

\* The whitespace characters of the model: blank and tab.
Whitespace == {" ", "\t"}

\* str.strip(): leading and trailing whitespace removed.
RECURSIVE LStrip(_)
LStrip(s) == IF s # <<>> /\ Head(s) \in Whitespace THEN LStrip(Tail(s)) ELSE s

RECURSIVE RStrip(_)
RStrip(s) == IF s # <<>> /\ s[Len(s)] \in Whitespace THEN RStrip(SubSeq(s, 1, Len(s) - 1)) ELSE s

\* A strip that removes nothing.
StripNothing(s) == s

Strip(s) == RStrip(LStrip(s))

\* A search that looks at the start of the string only.
ContainsAtStart(haystack, needle) == Len(needle) <= Len(haystack) /\ SubSeq(haystack, 1, Len(needle)) = needle

\* "needle in haystack" on strings.
Contains(haystack, needle) == \E i \in 0..(Len(haystack) - Len(needle)) : SubSeq(haystack, i + 1, i + Len(needle)) = needle

\* Sequences over S of length at most n.
SeqsUpTo(S, n) == UNION {[1..k -> S] : k \in 0..n}

\* ------------------------------------------------------------ documents

BEACONS == "config_beacon_map.json"
PATHNODES == "setup_path_config.json"
STOCK == "stock.json"
MEMBERS == "members.json"
SESSIONS == "sessions.json"

DocNames == {BEACONS, PATHNODES, STOCK, MEMBERS, SESSIONS}

DATA_DIR == "server_data"

path(name) == DATA_DIR \o "/" \o name

TmpName(name) == path(name \o ".tmp")

FileNames == {path(n) : n \in DocNames} \cup {TmpName(n) : n \in DocNames}

\* A file that does not exist.
NoFile == [exists |-> FALSE, data |-> <<>>]

\* json.dump: the text of obj, handed to the file in two writes.
Serialize(obj) == <<[val |-> obj, part |-> 1], [val |-> obj, part |-> 2]>>

\* json.load: the object of a complete text; anything else does not parse.
Parse(data) ==
  IF Len(data) = 2 /\ data[1].part = 1 /\ data[2].part = 2 /\ data[1].val = data[2].val
  THEN [ok |-> TRUE, val |-> data[1].val]
  ELSE [ok |-> FALSE, val |-> <<>>]

\* A file holding the complete text of obj.
FileOf(obj) == [exists |-> TRUE, data |-> Serialize(obj)]

\* _read_json on the file system f.
ReadFrom(f, name, default) ==
  IF ~f[path(name)].exists THEN [ok |-> TRUE, val |-> default] ELSE Parse(f[path(name)].data)

read_json(name, default) == ReadFrom(fs, name, default)

\* f.write(chunk) at offset off of a file's data (a gap reads as zero bytes).
WriteAt(data, off, chunk) ==
  [i \in 1..(IF Len(data) > off + 1 THEN Len(data) ELSE off + 1) |->
     IF i = off + 1 THEN chunk
     ELSE IF i <= Len(data) THEN data[i]
     ELSE [val |-> <<>>, part |-> 0]]

DefaultBeaconMap == [beacons |-> <<>>, real_width_m |-> 450, real_height_m |-> 298, pixel_width |-> 675, pixel_height |-> 437]

DefaultSession == [cart |-> <<>>, mode |-> "guest", member_id |-> None, last_step |-> "browse"]

\* The second argument of _read_json at each of its call sites.
DefaultOf(name) ==
  IF name = BEACONS THEN DefaultBeaconMap
  ELSE IF name = SESSIONS THEN [d \in {} |-> DefaultSession]
  ELSE <<>>

\* --------------------------------------------------------- access guard

VALID_KEYS == [pi_01 |-> <<"A7K9-22", "FQ-ZYX1">>, pi_02 |-> <<"L9D3-55", "TN-WBA4">>]

\* Whether the Authorization header of request r holds one of the keys.
verify_key(r) == \E d \in DOMAIN VALID_KEYS : Contains(Get(r.headers, "Authorization", <<>>), VALID_KEYS[d])

\* A guard that leaves the health check out.
StartsWithApiButHealth(p) == Len(p) >= 2 /\ p[1] = "api" /\ p # <<"api", "health">>

\* request.path.startswith("/api/"); a path is the tuple of its segments.
StartsWithApi(p) == Len(p) >= 2 /\ p[1] = "api"

\* The view function Flask's URL map gives a path and a method.
Route(p, method) ==
  IF p = <<"api", "health">> THEN (IF method = "GET" THEN "health" ELSE "405")
  ELSE IF p = <<"api", "beacons">> THEN (IF method \in {"GET", "POST"} THEN "beacons" ELSE "405")
  ELSE IF p = <<"api", "pathnodes">> THEN (IF method \in {"GET", "POST"} THEN "pathnodes" ELSE "405")
  ELSE IF p = <<"api", "stock">> THEN (IF method \in {"GET", "POST"} THEN "stock" ELSE "405")
  ELSE IF p = <<"api", "members">> THEN (IF method \in {"GET", "POST"} THEN "members" ELSE "405")
  ELSE IF p = <<"api", "session">> THEN (IF method \in {"GET", "PUT"} THEN "session" ELSE "405")
  ELSE IF p = <<"api", "checkout">> THEN (IF method = "POST" THEN "checkout" ELSE "405")
  ELSE "404"

\* ------------------------------------------------------ steps of a thread

\* The request of thread t ends with response r.
Finish(t, r) ==
  /\ resp' = [resp EXCEPT ![t] = r]
  /\ pc' = [pc EXCEPT ![t] = "done"]

Goto(t, label) == pc' = [pc EXCEPT ![t] = label]

\* Thread t enters _write_json(name, obj); it goes on at ret afterwards.
BeginWrite(t, name, obj, ret) ==
  /\ wr' = [wr EXCEPT ![t] = [name |-> name, obj |-> obj, off |-> 0, ret |-> ret]]
  /\ Goto(t, "write_json")

Ok200 == [status |-> 200, body |-> "status ok"]

Error500 == [status |-> 500, body |-> "internal server error"]

\* jsonify of a document that was read.
Json200(val) == [status |-> 200, body |-> "json", data |-> val]

\* @app.before_request check_auth
check_auth(t) ==
  /\ pc[t] = "before_request"
  /\ IF StartsWithApi(req[t].path) /\ ~verify_key(req[t])
     THEN Finish(t, [status |-> 401, body |-> "unauthorized"])
     ELSE Goto(t, "dispatch") /\ UNCHANGED resp
  /\ UNCHANGED <<fs, fs0, LOCK, req, loc, wr, wlog>>

\* Flask's dispatch of the request to its view function.
Dispatch(t) ==
  /\ pc[t] = "dispatch"
  /\ LET view == Route(req[t].path, req[t].method) IN
       IF view = "404" THEN Finish(t, [status |-> 404, body |-> "not found"])
       ELSE IF view = "405" THEN Finish(t, [status |-> 405, body |-> "method not allowed"])
       ELSE Goto(t, view) /\ UNCHANGED resp
  /\ UNCHANGED <<fs, fs0, LOCK, req, loc, wr, wlog>>

\* GET /api/health
health(t) ==
  /\ pc[t] = "health"
  /\ Finish(t, [status |-> 200, body |-> "ok true"])
  /\ UNCHANGED <<fs, fs0, LOCK, req, loc, wr, wlog>>

\* A variant of the shared body in which a POST adds the body to the list
\* that is stored, instead of replacing it.
ResourceMerging(t, name) ==
  IF req[t].method = "GET"
  THEN LET r == read_json(name, DefaultOf(name)) IN
         /\ Finish(t, IF r.ok THEN Json200(r.val) ELSE Error500)
         /\ UNCHANGED wr
  ELSE LET r == read_json(name, DefaultOf(name)) IN
         /\ BeginWrite(t, name, IF name # BEACONS /\ r.ok THEN r.val \o req[t].body ELSE req[t].body, "return_ok")
         /\ UNCHANGED resp

\* The body shared by beacons, pathnodes, stock and members.
Resource(t, name) ==
  IF req[t].method = "GET"
  THEN LET r == read_json(name, DefaultOf(name)) IN
         /\ Finish(t, IF r.ok THEN Json200(r.val) ELSE Error500)
         /\ UNCHANGED wr
  ELSE /\ BeginWrite(t, name, req[t].body, "return_ok")
       /\ UNCHANGED resp

beacons(t) ==
  /\ pc[t] = "beacons"
  /\ Resource(t, BEACONS)
  /\ UNCHANGED <<fs, fs0, LOCK, req, loc, wlog>>

pathnodes(t) ==
  /\ pc[t] = "pathnodes"
  /\ Resource(t, PATHNODES)
  /\ UNCHANGED <<fs, fs0, LOCK, req, loc, wlog>>

stock(t) ==
  /\ pc[t] = "stock"
  /\ Resource(t, STOCK)
  /\ UNCHANGED <<fs, fs0, LOCK, req, loc, wlog>>

members(t) ==
  /\ pc[t] = "members"
  /\ Resource(t, MEMBERS)
  /\ UNCHANGED <<fs, fs0, LOCK, req, loc, wlog>>

\* A session handler that stores the default session it answers with.
session_setdefault(t) ==
  /\ pc[t] = "session"
  /\ LET q == Strip(Get(req[t].args, "device_id", <<>>))
         r == read_json(SESSIONS, DefaultOf(SESSIONS))
     IN  IF q = <<>>
         THEN Finish(t, [status |-> 400, body |-> "device_id required"]) /\ UNCHANGED wr
         ELSE IF ~r.ok
         THEN Finish(t, Error500) /\ UNCHANGED wr
         ELSE IF req[t].method = "GET" /\ q \in DOMAIN r.val
         THEN Finish(t, Json200(r.val[q])) /\ UNCHANGED wr
         ELSE BeginWrite(t, SESSIONS, Put(r.val, q, IF req[t].method = "GET" THEN DefaultSession ELSE req[t].body), "return_ok") /\ UNCHANGED resp
  /\ UNCHANGED <<fs, fs0, LOCK, req, loc, wlog>>

\* GET/PUT /api/session
session(t) ==
  /\ pc[t] = "session"
  /\ LET q == Strip(Get(req[t].args, "device_id", <<>>))
         r == read_json(SESSIONS, DefaultOf(SESSIONS))
     IN  IF q = <<>>
         THEN Finish(t, [status |-> 400, body |-> "device_id required"]) /\ UNCHANGED wr
         ELSE IF ~r.ok
         THEN Finish(t, Error500) /\ UNCHANGED wr
         ELSE IF req[t].method = "GET"
         THEN Finish(t, Json200(Get(r.val, q, DefaultSession))) /\ UNCHANGED wr
         ELSE BeginWrite(t, SESSIONS, Put(r.val, q, req[t].body), "return_ok") /\ UNCHANGED resp
  /\ UNCHANGED <<fs, fs0, LOCK, req, loc, wlog>>

\* The return jsonify(status="ok") that ends a handler after its last write.
return_ok(t) ==
  /\ pc[t] = "return_ok"
  /\ Finish(t, Ok200)
  /\ UNCHANGED <<fs, fs0, LOCK, req, loc, wr, wlog>>

\* ------------------------------------------------------------ _write_json

\* A write path that takes no lock.
LockIgnored == TRUE

\* Whether "with LOCK" can be entered.
LockAvailable == LOCK = NoThread

\* with LOCK: ... open(tmp, "w"): the lock is taken, the temporary file is
\* created or truncated.
write_json(t) ==
  /\ pc[t] = "write_json"
  /\ LockAvailable
  /\ LOCK' = t
  /\ fs' = [fs EXCEPT ![TmpName(wr[t].name)] = [exists |-> TRUE, data |-> <<>>]]
  /\ Goto(t, "json_dump")
  /\ UNCHANGED <<fs0, req, resp, loc, wr, wlog>>

\* json.dump(obj, f): the next chunk of the text reaches the temporary file.
json_dump(t) ==
  /\ pc[t] = "json_dump"
  /\ LET tmp == TmpName(wr[t].name)
         text == Serialize(wr[t].obj)
     IN  /\ fs' = [fs EXCEPT ![tmp].data = WriteAt(@, wr[t].off, text[wr[t].off + 1])]
         /\ wr' = [wr EXCEPT ![t].off = @ + 1]
         /\ Goto(t, IF wr[t].off + 1 = Len(text) THEN "os_replace" ELSE "json_dump")
  /\ UNCHANGED <<fs0, LOCK, req, resp, loc, wlog>>

\* An os.replace after which the lock stays with the thread.
os_replace_keeping_lock(t) ==
  /\ pc[t] = "os_replace"
  /\ LET tmp == TmpName(wr[t].name) IN
       IF fs[tmp].exists
       THEN /\ fs' = [fs EXCEPT ![path(wr[t].name)] = fs[tmp], ![tmp] = NoFile]
            /\ wlog' = [wlog EXCEPT ![t] = Append(@, [name |-> wr[t].name, obj |-> wr[t].obj])]
            /\ Goto(t, wr[t].ret)
            /\ UNCHANGED resp
       ELSE /\ Finish(t, Error500)
            /\ UNCHANGED <<fs, wlog>>
  /\ UNCHANGED <<fs0, LOCK, req, loc, wr>>

\* os.replace(tmp, _path(name)), then the lock is released; os.replace
\* raises when the temporary file is gone.
os_replace(t) ==
  /\ pc[t] = "os_replace"
  /\ LET tmp == TmpName(wr[t].name) IN
       IF fs[tmp].exists
       THEN /\ fs' = [fs EXCEPT ![path(wr[t].name)] = fs[tmp], ![tmp] = NoFile]
            /\ wlog' = [wlog EXCEPT ![t] = Append(@, [name |-> wr[t].name, obj |-> wr[t].obj])]
            /\ Goto(t, wr[t].ret)
            /\ UNCHANGED resp
       ELSE /\ Finish(t, Error500)
            /\ UNCHANGED <<fs, wlog>>
  /\ LOCK' = NoThread
  /\ UNCHANGED <<fs0, req, loc, wr>>

\* --------------------------------------------------------------- checkout

\* Position of sku among the keys of the index idx (0: not a key). The index
\* is the dict sku_to_item as the sequence of its values in insertion order.
KeyPos(idx, sku) == IF \E i \in 1..Len(idx) : idx[i].sku = sku THEN CHOOSE i \in 1..Len(idx) : idx[i].sku = sku ELSE 0

\* sku_to_item[it["sku"]] = it: a new key is appended, a known key keeps its
\* place and takes the new value.
SetItem(idx, it) == IF KeyPos(idx, it.sku) = 0 THEN Append(idx, it) ELSE [idx EXCEPT ![KeyPos(idx, it.sku)] = it]

\* {it["sku"]: it for it in stock}
RECURSIVE IndexBySku(_)
IndexBySku(stockDoc) ==
  IF stockDoc = <<>> THEN <<>>
  ELSE SetItem(IndexBySku(SubSeq(stockDoc, 1, Len(stockDoc) - 1)), stockDoc[Len(stockDoc)])

\* A validation that forgets the comparison of quantities.
LineFailsUnknownOnly(idx, it) == KeyPos(idx, it.sku) = 0

\* Whether the validation loop returns an error at cart line it.
LineFails(idx, it) == KeyPos(idx, it.sku) = 0 \/ idx[KeyPos(idx, it.sku)].qty < it.qty

\* A validation loop that reports the last failing line, not the first.
ValidateLast(idx, cart, i) ==
  IF \E j \in i..Len(cart) : LineFails(idx, cart[j])
  THEN CHOOSE j \in i..Len(cart) : LineFails(idx, cart[j]) /\ \A k \in (j + 1)..Len(cart) : ~LineFails(idx, cart[k])
  ELSE 0

\* The validation loop: the position of the first cart line, from line i on,
\* at which it returns an error (0: it runs to the end).
RECURSIVE Validate(_, _, _)
Validate(idx, cart, i) ==
  IF i > Len(cart) THEN 0
  ELSE IF LineFails(idx, cart[i]) THEN i
  ELSE Validate(idx, cart, i + 1)

\* The error response of the validation loop at cart line it.
ValidationError(idx, it) ==
  IF KeyPos(idx, it.sku) = 0
  THEN [status |-> 400, body |-> "unknown sku", sku |-> it.sku]
  ELSE [status |-> 400, body |-> "insufficient stock for", sku |-> it.sku]

\* The decrement loop over the first n cart lines.
RECURSIVE Decrement(_, _, _)
Decrement(idx, cart, n) ==
  IF n = 0 THEN idx
  ELSE LET d == Decrement(idx, cart, n - 1)
           k == KeyPos(d, cart[n].sku)
       IN  [d EXCEPT ![k].qty = @ - cart[n].qty]

\* total += price * int(it["qty"]) over the first n cart lines, in cents.
RECURSIVE Total(_, _, _)
Total(idx, cart, n) ==
  IF n = 0 THEN 0
  ELSE Total(idx, cart, n - 1) + idx[KeyPos(idx, cart[n].sku)].price * cart[n].qty

\* A rounding that truncates.
PointsAddTruncated(total) == {total \div 20}

\* round(total * 0.05, 2) of a total in cents, in hundredths of a point:
\* the hundredth nearest to total / 20. When total / 20 lies halfway between
\* two hundredths the rounding error of the float product decides, so either
\* neighbour can be the result.
PointsAdd(total) ==
  LET q == total \div 20
      r == total % 20
  IN  IF 2 * r < 20 THEN {q}
      ELSE IF 2 * r > 20 THEN {q + 1}
      ELSE {q, q + 1}

\* A lookup that falls back on the first member.
FindMemberOrFirst(membersDoc, member_id) ==
  IF \E i \in 1..Len(membersDoc) : Get(membersDoc[i], "id", None) = member_id
  THEN CHOOSE i \in 1..Len(membersDoc) : Get(membersDoc[i], "id", None) = member_id
  ELSE IF membersDoc = <<>> THEN 0 ELSE 1

\* next((x for x in members if x.get("id") == member_id), None) as a
\* position in the members document (0: None).
FindMember(membersDoc, member_id) ==
  IF \E i \in 1..Len(membersDoc) : Get(membersDoc[i], "id", None) = member_id
  THEN CHOOSE i \in 1..Len(membersDoc) :
         /\ Get(membersDoc[i], "id", None) = member_id
         /\ \A j \in 1..(i - 1) : Get(membersDoc[j], "id", None) # member_id
  ELSE 0

\* A checkout that goes on to the points without writing the stock.
checkout_without_stock_write(t) ==
  /\ pc[t] = "checkout"
  /\ LET cart == Get(req[t].body, "cart", <<>>)
         r == read_json(STOCK, DefaultOf(STOCK))
         sku_to_item == IndexBySku(r.val)
         bad == Validate(sku_to_item, cart, 1)
     IN  IF ~r.ok
         THEN Finish(t, Error500) /\ UNCHANGED <<loc, wr>>
         ELSE IF bad # 0
         THEN Finish(t, ValidationError(sku_to_item, cart[bad])) /\ UNCHANGED <<loc, wr>>
         ELSE /\ loc' = [loc EXCEPT ![t].sku_to_item = Decrement(sku_to_item, cart, Len(cart))]
              /\ Goto(t, "checkout_members")
              /\ UNCHANGED <<resp, wr>>
  /\ UNCHANGED <<fs, fs0, LOCK, req, wlog>>

\* POST /api/checkout, lines 125-146: the stock is loaded and indexed, the
\* cart validated and, when valid, decremented in memory; the write of the
\* stock document begins.
checkout(t) ==
  /\ pc[t] = "checkout"
  /\ LET cart == Get(req[t].body, "cart", <<>>)
         r == read_json(STOCK, DefaultOf(STOCK))
         sku_to_item == IndexBySku(r.val)
         bad == Validate(sku_to_item, cart, 1)
     IN  IF ~r.ok
         THEN Finish(t, Error500) /\ UNCHANGED <<loc, wr>>
         ELSE IF bad # 0
         THEN Finish(t, ValidationError(sku_to_item, cart[bad])) /\ UNCHANGED <<loc, wr>>
         ELSE /\ loc' = [loc EXCEPT ![t].sku_to_item = Decrement(sku_to_item, cart, Len(cart))]
              /\ BeginWrite(t, STOCK, Decrement(sku_to_item, cart, Len(cart)), "checkout_members")
              /\ UNCHANGED resp
  /\ UNCHANGED <<fs, fs0, LOCK, req, wlog>>

\* Lines 148-159: the points of the member, when member_id names one.
checkout_members(t) ==
  /\ pc[t] = "checkout_members"
  /\ LET cart == Get(req[t].body, "cart", <<>>)
         member_id == Get(req[t].body, "member_id", None)
         r == read_json(MEMBERS, DefaultOf(MEMBERS))
         m == FindMember(r.val, member_id)
     IN  IF ~Truthy(member_id)
         THEN Goto(t, "checkout_session") /\ UNCHANGED <<resp, wr>>
         ELSE IF ~r.ok
         THEN Finish(t, Error500) /\ UNCHANGED wr
         ELSE IF m = 0
         THEN Goto(t, "checkout_session") /\ UNCHANGED <<resp, wr>>
         ELSE /\ \E points_add \in PointsAdd(Total(loc[t].sku_to_item, cart, Len(cart))) :
                   BeginWrite(t, MEMBERS, [r.val EXCEPT ![m] = Put(@, "points", Get(@, "points", 0) + points_add)], "checkout_session")
              /\ UNCHANGED resp
  /\ UNCHANGED <<fs, fs0, LOCK, req, loc, wlog>>

\* Lines 161-167: the session of the device, when it has one.
checkout_session(t) ==
  /\ pc[t] = "checkout_session"
  /\ LET device_id == Get(req[t].body, "device_id", None)
         r == read_json(SESSIONS, DefaultOf(SESSIONS))
     IN  IF ~r.ok
         THEN Finish(t, Error500) /\ UNCHANGED wr
         ELSE IF device_id \in DOMAIN r.val
         THEN /\ BeginWrite(t, SESSIONS, Put(r.val, device_id, Put(Put(r.val[device_id], "last_step", "paid"), "cart", <<>>)), "return_ok")
              /\ UNCHANGED resp
         ELSE Goto(t, "return_ok") /\ UNCHANGED <<resp, wr>>
  /\ UNCHANGED <<fs, fs0, LOCK, req, loc, wlog>>

\* ------------------------------------------------- documents and requests

M1 == <<"m", "1">>
M2 == <<"m", "2">>
M9 == <<"m", "9">>
D1 == <<"d", "1">>
D2 == <<"d", "2">>
D3 == <<"d", "3">>

\* The price of a sku, in cents.
PriceOf(sku) == IF sku = "A" THEN 200 ELSE 99

Item(sku, qty) == [sku |-> sku, qty |-> qty, price |-> PriceOf(sku)]

Line(sku, qty) == [sku |-> sku, qty |-> qty]

Qtys == 0..MaxQty

\* Stock documents: empty, one entry, two entries, two entries of one sku.
StockDocs ==
  {<<>>} \cup {<<Item("A", q)>> : q \in Qtys}
         \cup {<<Item("A", q[1]), Item("B", q[2])>> : q \in Qtys \X Qtys}
         \cup {<<Item("A", q[1]), Item("A", q[2])>> : q \in Qtys \X Qtys}

\* Cart lines: a quantity of a stocked sku, or a sku that is not stocked.
CartLines == {Line(l[1], l[2]) : l \in {"A", "B"} \X (1..MaxQty)} \cup {Line("Z", 1)}

Carts == SeqsUpTo(CartLines, MaxCartLen)

MembersDoc == <<[id |-> M1, points |-> 10], [id |-> M2]>>

SessionOf(cart, member_id, last_step) == [cart |-> cart, mode |-> IF member_id = None THEN "guest" ELSE "member", member_id |-> member_id, last_step |-> last_step]

S1 == SessionOf(<<Line("A", 1)>>, M1, "checkout_pending")
S2 == SessionOf(<<Line("B", 1)>>, None, "browse")
S3 == SessionOf(<<>>, M2, "browse")

SessionsDoc == [d \in {D1, D3} |-> IF d = D1 THEN S1 ELSE S2]

\* The body of a checkout; None stands for a field that is null or missing.
CheckoutBody(cart, device_id, member_id) ==
  LET b0 == [cart |-> cart]
      b1 == IF device_id = None THEN b0 ELSE Put(b0, "device_id", device_id)
  IN  IF member_id = None THEN b1 ELSE Put(b1, "member_id", member_id)

KEY1 == VALID_KEYS.pi_01

Authorized == [Authorization |-> KEY1]

Request(method, p, headers, args, body) == [method |-> method, path |-> p, headers |-> headers, args |-> args, body |-> body]

NoArgs == <<>>
NoBody == <<>>

DeviceArg(d) == [device_id |-> d]

CheckoutRequest(cart, device_id, member_id) == Request("POST", <<"api", "checkout">>, Authorized, NoArgs, CheckoutBody(cart, device_id, member_id))

GetRequest(name) == Request("GET", <<"api", name>>, Authorized, NoArgs, NoBody)

PostRequest(name, doc) == Request("POST", <<"api", name>>, Authorized, NoArgs, doc)

GetSession(d) == Request("GET", <<"api", "session">>, Authorized, DeviceArg(d), NoBody)

PutSession(d, s) == Request("PUT", <<"api", "session">>, Authorized, DeviceArg(d), s)

\* Session requests whose device_id is missing, empty or whitespace.
BlankSessionRequests ==
  {Request(m, <<"api", "session">>, Authorized, a, IF m = "PUT" THEN S2 ELSE NoBody) :
     m \in {"GET", "PUT"}, a \in {NoArgs, DeviceArg(<<>>), DeviceArg(<<" ">>), DeviceArg(<<"\t", " ">>)}}

\* One request of every endpoint that is not the checkout.
OtherRequests ==
  {GetRequest(n) : n \in {"health", "beacons", "pathnodes", "stock", "members"}}
  \cup {PostRequest("beacons", DefaultBeaconMap), PostRequest("pathnodes", <<"n1">>)}
  \cup {PostRequest("stock", <<Item("B", 1)>>), PostRequest("members", <<[id |-> M9]>>)}
  \cup {GetSession(D1), GetSession(D2), PutSession(D2, S2), PutSession(<<" ">> \o D1, S3)}
  \cup BlankSessionRequests

\* The requests of a run in isolation.
IsoRequests == {CheckoutRequest(c, d, m) : c \in Carts, d \in {None, D1, D2}, m \in {None, M1, M2, M9}} \cup OtherRequests

\* The requests of a concurrent run.
ConcRequests ==
  {GetRequest(n) : n \in {"health", "beacons", "pathnodes", "stock", "members"}}
  \cup {PostRequest("stock", <<Item("A", 1)>>), PostRequest("stock", <<Item("B", 1)>>)}
  \cup {PostRequest("beacons", [DefaultBeaconMap EXCEPT !.pixel_width = 800]), PostRequest("pathnodes", <<"n1">>)}
  \cup {PostRequest("members", <<[id |-> M9]>>)}
  \cup {GetSession(D1), PutSession(D1, S2), PutSession(D2, S3)}
  \cup {CheckoutRequest(<<Line("A", MaxQty)>>, D1, M1), CheckoutRequest(<<Line("A", 1)>>, D2, M2)}

AuthBlocks == {"A7K9-22", "FQ-ZYX1", "L9D3-55", "TN-WBA4", "Bearer "}

\* Requests with every Authorization header, and with none.
AuthRequests ==
  LET hs == {[Authorization |-> h] : h \in SeqsUpTo(AuthBlocks, MaxAuthLen)} \cup {<<>>}
      ops == {<<"GET", <<"api", "health">>, NoArgs, NoBody>>,
              <<"POST", <<"api", "health">>, NoArgs, NoBody>>,
              <<"GET", <<"api", "beacons">>, NoArgs, NoBody>>,
              <<"GET", <<"api", "pathnodes">>, NoArgs, NoBody>>,
              <<"GET", <<"api", "stock">>, NoArgs, NoBody>>,
              <<"GET", <<"api", "members">>, NoArgs, NoBody>>,
              <<"POST", <<"api", "stock">>, NoArgs, <<Item("B", 1)>>>>,
              <<"PUT", <<"api", "session">>, DeviceArg(D2), S2>>,
              <<"POST", <<"api", "checkout">>, NoArgs, CheckoutBody(<<Line("A", 1)>>, D1, M1)>>,
              <<"GET", <<"api", "nothing">>, NoArgs, NoBody>>,
              <<"GET", <<"api">>, NoArgs, NoBody>>,
              <<"GET", <<"health">>, NoArgs, NoBody>>}
  IN  {Request(o[1], o[2], h, o[3], o[4]) : o \in ops, h \in hs}

\* ------------------------------------------------------------ the system

NoResponse == [status |-> 0, body |-> "none"]

\* The data directory holding the given stock, and the members and sessions
\* documents of the model; no beacon map, no path nodes, no temporary file.
DataDir(stockDoc) ==
  [f \in FileNames |->
     IF f = path(STOCK) THEN FileOf(stockDoc)
     ELSE IF f = path(MEMBERS) THEN FileOf(MembersDoc)
     ELSE IF f = path(SESSIONS) THEN FileOf(SessionsDoc)
     ELSE NoFile]

\* The data directory before anything was written.
EmptyDir == [f \in FileNames |-> NoFile]

\* The state in which each thread of serving has its request and the others
\* serve nothing.
Start(files, requests) ==
  /\ fs = files
  /\ fs0 = files
  /\ LOCK = NoThread
  /\ req = requests
  /\ pc = [t \in Threads |-> IF requests[t] = NoBody THEN "idle" ELSE "before_request"]
  /\ resp = [t \in Threads |-> NoResponse]
  /\ loc = [t \in Threads |-> [sku_to_item |-> <<>>]]
  /\ wr = [t \in Threads |-> [name |-> "", obj |-> <<>>, off |-> 0, ret |-> ""]]
  /\ wlog = [t \in Threads |-> <<>>]

\* Two requests served concurrently.
Init == \E r \in [Threads -> ConcRequests], d \in {DataDir(<<Item("A", MaxQty), Item("B", 1)>>), EmptyDir} : Start(d, r)

\* Thread t1 alone, serving request r.
Alone(r) == [t \in Threads |-> IF t = "t1" THEN r ELSE NoBody]

\* The scenario of a member buying three of ten: the files and the request.
ExampleFiles == [DataDir(<<[sku |-> "A", qty |-> 10, price |-> 200]>>) EXCEPT ![path(MEMBERS)] = FileOf(<<[id |-> M1, points |-> 0]>>)]

ExampleRequest == CheckoutRequest(<<Line("A", 3)>>, D1, M1)

\* One request served in isolation, on any stock document.
InitIso ==
  \/ \E s \in StockDocs, r \in IsoRequests : Start(DataDir(s), Alone(r))
  \/ Start(ExampleFiles, Alone(ExampleRequest))
  \/ \E r \in OtherRequests : Start(EmptyDir, Alone(r))

\* One request with any Authorization header.
InitAuth == \E r \in AuthRequests : Start(DataDir(<<Item("A", MaxQty)>>), Alone(r))

\* A step of thread t.
Step(t) ==
    \/ check_auth(t)
    \/ Dispatch(t)
    \/ health(t)
    \/ beacons(t)
    \/ pathnodes(t)
    \/ stock(t)
    \/ members(t)
    \/ session(t)
    \/ checkout(t)
    \/ checkout_members(t)
    \/ checkout_session(t)
    \/ write_json(t)
    \/ json_dump(t)
    \/ os_replace(t)
    \/ return_ok(t)

Next == \E t \in Threads : Step(t)

\* Every thread that can take a step eventually takes one.
Fairness == \A t \in Threads : WF_vars(Step(t))

Spec == Init /\ [][Next]_vars

SpecIso == InitIso /\ [][Next]_vars

SpecAuth == InitAuth /\ [][Next]_vars

\* Two concurrent requests under a fair scheduling of the threads.
SpecFair == Init /\ [][Next]_vars /\ Fairness

\* ------------------------------------------------------ terms of the claims

\* The document stored under name now, and when the requests arrived.
Stored(name) == ReadFrom(fs, name, DefaultOf(name)).val

Before(name) == ReadFrom(fs0, name, DefaultOf(name)).val

Served(t) == pc[t] = "done"

IsCheckout(t) == pc[t] # "idle" /\ req[t].path = <<"api", "checkout">> /\ req[t].method = "POST"

IsSession(t, method) == pc[t] # "idle" /\ req[t].path = <<"api", "session">> /\ req[t].method = method

CartOf(t) == Get(req[t].body, "cart", <<>>)

Stocked(doc, sku) == \E i \in 1..Len(doc) : doc[i].sku = sku

UniqueSkus(doc) == \A i, j \in 1..Len(doc) : doc[i].sku = doc[j].sku => i = j

\* The entry of sku in a stock document (the last one, were there several).
EntryOf(doc, sku) == doc[CHOOSE i \in 1..Len(doc) : doc[i].sku = sku /\ \A j \in (i + 1)..Len(doc) : doc[j].sku # sku]

\* A cart line that fails validation against a stock document.
UnknownLine(doc, line) == ~Stocked(doc, line.sku)

ShortLine(doc, line) == Stocked(doc, line.sku) /\ EntryOf(doc, line.sku).qty < line.qty

InvalidLine(doc, line) == UnknownLine(doc, line) \/ ShortLine(doc, line)

Least(S) == CHOOSE i \in S : \A j \in S : i <= j

\* The quantity of sku over the first n lines of a cart.
RECURSIVE Requested(_, _, _)
Requested(cart, sku, n) ==
  IF n = 0 THEN 0
  ELSE Requested(cart, sku, n - 1) + (IF cart[n].sku = sku THEN cart[n].qty ELSE 0)

\* The price of the first n lines of a cart, in cents.
RECURSIVE Amount(_, _, _)
Amount(doc, cart, n) ==
  IF n = 0 THEN 0
  ELSE Amount(doc, cart, n - 1) + EntryOf(doc, cart[n].sku).price * cart[n].qty

\* Every sku of the cart has its stored quantity lowered by what the cart
\* asks of it.
StockLowered(cart) ==
  \A i \in 1..Len(cart) :
    /\ Stocked(Stored(STOCK), cart[i].sku)
    /\ EntryOf(Stored(STOCK), cart[i].sku).qty = EntryOf(Before(STOCK), cart[i].sku).qty - Requested(cart, cart[i].sku, Len(cart))

MemberId(t) == Get(req[t].body, "member_id", None)

DeviceId(t) == Get(req[t].body, "device_id", None)

IsMember(doc, id) == \E i \in 1..Len(doc) : "id" \in DOMAIN doc[i] /\ doc[i].id = id

WrittenNames(t) == {wlog[t][i].name : i \in 1..Len(wlog[t])}

\* --------------------------------------------------------------- claims

\* C1 (as claimed; refuted): from a stock document with unique skus, no
\* stored stock quantity is ever negative, and after a successful checkout
\* the stored quantity of every cart line's sku is lower by exactly the
\* quantity that line requests.
C1_StockLoweredByLineNeverNegative ==
  UniqueSkus(Before(STOCK)) =>
    /\ \A i \in 1..Len(Stored(STOCK)) : Stored(STOCK)[i].qty >= 0
    /\ \A t \in Threads :
         IsCheckout(t) /\ Served(t) /\ resp[t] = Ok200 =>
           \A i \in 1..Len(CartOf(t)) :
             EntryOf(Stored(STOCK), CartOf(t)[i].sku).qty = EntryOf(Before(STOCK), CartOf(t)[i].sku).qty - CartOf(t)[i].qty

\* C2: a checkout with a cart line that fails validation (unknown sku, or
\* more than is available) ends with an error and writes nothing: no file,
\* temporary files included, ever differs from what it was before the call.
C2_FailedValidationWritesNothing ==
  \A t \in Threads :
    IsCheckout(t) /\ (\E i \in 1..Len(CartOf(t)) : InvalidLine(Before(STOCK), CartOf(t)[i])) =>
      /\ pc[t] \in {"before_request", "dispatch", "checkout", "done"}
      /\ wlog[t] = <<>>
      /\ fs = fs0
      /\ Served(t) => resp[t].status = 400

\* C2 witness: a checkout has failed on its second line after a valid first.
C2_Witness ==
  /\ IsCheckout("t1") /\ Served("t1") /\ resp["t1"].status = 400
  /\ Len(CartOf("t1")) = 2
  /\ ~InvalidLine(Before(STOCK), CartOf("t1")[1])
  /\ InvalidLine(Before(STOCK), CartOf("t1")[2])
  /\ fs = fs0

\* C3 (as claimed; refuted): a cart with an unknown sku fails with UnknownSku
\* naming the first unknown sku whatever its other lines are; a cart without
\* one but with a line over the available quantity fails with
\* InsufficientStock naming the first such sku.
C3_UnknownSkuFirst ==
  \A t \in Threads :
    IsCheckout(t) /\ Served(t) =>
      LET cart == CartOf(t)
          unknown == {i \in 1..Len(cart) : UnknownLine(Before(STOCK), cart[i])}
          short == {i \in 1..Len(cart) : ShortLine(Before(STOCK), cart[i])}
      IN  /\ unknown # {} => resp[t] = [status |-> 400, body |-> "unknown sku", sku |-> cart[Least(unknown)].sku]
          /\ unknown = {} /\ short # {} => resp[t] = [status |-> 400, body |-> "insufficient stock for", sku |-> cart[Least(short)].sku]

\* C3 (amended): a checkout whose cart has an invalid line fails on the
\* first invalid line in cart order: with UnknownSku naming its sku when the
\* sku is not in stock, with InsufficientStock naming it otherwise.
C3_FirstInvalidLineDecides ==
  \A t \in Threads :
    IsCheckout(t) /\ Served(t) =>
      LET cart == CartOf(t)
          invalid == {i \in 1..Len(cart) : InvalidLine(Before(STOCK), cart[i])}
      IN  invalid # {} =>
            resp[t] = [status |-> 400,
                       body |-> IF UnknownLine(Before(STOCK), cart[Least(invalid)]) THEN "unknown sku" ELSE "insufficient stock for",
                       sku |-> cart[Least(invalid)].sku]

\* C3 witness: a cart whose first line asks too much and whose second line
\* is unknown has failed with InsufficientStock.
C3_Witness ==
  /\ IsCheckout("t1") /\ Served("t1")
  /\ Len(CartOf("t1")) = 2
  /\ ShortLine(Before(STOCK), CartOf("t1")[1])
  /\ UnknownLine(Before(STOCK), CartOf("t1")[2])
  /\ resp["t1"].body = "insufficient stock for"

\* C4: a successful checkout in isolation whose member_id names a member
\* lowers the stock of every cart sku by what the cart asks of it, adds 5%
\* of the cart's amount, rounded to a hundredth of a point, to that member's
\* points (missing points counting as 0) and to nothing else, and marks the
\* device's session, if there is one, as paid with an empty cart. In the
\* scenario of three out of ten at 2.00, stock becomes 7 and points 0.30.
C4_CheckoutOfMember ==
  \A t \in Threads :
    IsCheckout(t) /\ Served(t) /\ resp[t] = Ok200 /\ Truthy(MemberId(t)) /\ IsMember(Before(MEMBERS), MemberId(t)) =>
      LET cart == CartOf(t)
          old == Before(MEMBERS)
          new == Stored(MEMBERS)
          m == Least({i \in 1..Len(old) : old[i].id = MemberId(t)})
          sessions == Before(SESSIONS)
      IN  /\ StockLowered(cart)
          /\ Len(new) = Len(old)
          /\ \A i \in 1..Len(old) : i # m => new[i] = old[i]
          /\ new[m].id = old[m].id
          /\ 20 * (new[m].points - Get(old[m], "points", 0)) - Amount(Before(STOCK), cart, Len(cart)) \in -10..10
          /\ DeviceId(t) \in DOMAIN sessions =>
               /\ Stored(SESSIONS)[DeviceId(t)].last_step = "paid"
               /\ Stored(SESSIONS)[DeviceId(t)].cart = <<>>
               /\ Stored(SESSIONS)[DeviceId(t)].mode = sessions[DeviceId(t)].mode
          /\ fs0 = ExampleFiles /\ req[t] = ExampleRequest =>
               /\ Stored(STOCK) = <<[sku |-> "A", qty |-> 7, price |-> 200]>>
               /\ new = <<[id |-> M1, points |-> 30]>>

\* C4 witness: the scenario has been served.
C4_Witness ==
  /\ fs0 = ExampleFiles /\ req["t1"] = ExampleRequest /\ Served("t1") /\ resp["t1"] = Ok200
  /\ Stored(STOCK)[1].qty = 7
  /\ Stored(MEMBERS)[1].points = 30
  /\ Stored(SESSIONS)[D1].last_step = "paid"

\* C5: a checkout whose member_id is set but names no member never writes
\* the members document, and when its cart is valid it succeeds and lowers
\* the stock.
C5_UnknownMemberSkipsPoints ==
  \A t \in Threads :
    IsCheckout(t) /\ Truthy(MemberId(t)) /\ ~IsMember(Before(MEMBERS), MemberId(t)) =>
      /\ MEMBERS \notin WrittenNames(t)
      /\ pc[t] = "write_json" => wr[t].name # MEMBERS
      /\ fs[path(MEMBERS)] = fs0[path(MEMBERS)]
      /\ fs[TmpName(MEMBERS)] = NoFile
      /\ Served(t) /\ (\A i \in 1..Len(CartOf(t)) : ~InvalidLine(Before(STOCK), CartOf(t)[i])) =>
           resp[t] = Ok200 /\ StockLowered(CartOf(t))

\* C5 witness: a checkout for an unknown member has succeeded and lowered
\* the stock.
C5_Witness ==
  /\ IsCheckout("t1") /\ Served("t1") /\ resp["t1"] = Ok200
  /\ MemberId("t1") = M9
  /\ CartOf("t1") # <<>>
  /\ Stored(STOCK) # Before(STOCK)
  /\ Stored(MEMBERS) = Before(MEMBERS)

\* ------------------------------------------- terms of the claims, continued

\* The document of a resource endpoint.
DocOf(segment) ==
  IF segment = "beacons" THEN BEACONS
  ELSE IF segment = "pathnodes" THEN PATHNODES
  ELSE IF segment = "stock" THEN STOCK
  ELSE MEMBERS

ResourcePaths == {<<"api", n>> : n \in {"beacons", "pathnodes", "stock", "members"}}

IsResource(t, method) == pc[t] # "idle" /\ req[t].path \in ResourcePaths /\ req[t].method = method

\* The values a document has held: the one it began with and the one of
\* every _write_json of it that has replaced the file.
Written(name) == {Before(name)} \cup {wlog[t][i].obj : <<t, i>> \in {x \in Threads \X (1..3) : x[2] <= Len(wlog[x[1]]) /\ wlog[x[1]][x[2]].name = name}}

AllServed == \A t \in Threads : pc[t] \in {"idle", "done"}

\* The device a session request is about.
SessionKey(t) == Strip(Get(req[t].args, "device_id", <<>>))

\* Whether the request of thread t stores a session record for device d.
TouchesSession(t, d) == (IsSession(t, "PUT") /\ SessionKey(t) = d) \/ (IsCheckout(t) /\ DeviceId(t) = d)

\* Whether header h holds one of the secrets somewhere.
HasSecret(h) ==
  \E d \in DOMAIN VALID_KEYS : \E i \in 1..Len(h) :
    \A j \in 1..Len(VALID_KEYS[d]) : i + j - 1 <= Len(h) /\ h[i + j - 1] = VALID_KEYS[d][j]

AuthorizationOf(t) == Get(req[t].headers, "Authorization", <<>>)

\* The paths of the data endpoints.
DataPaths == ResourcePaths \cup {<<"api", "session">>, <<"api", "checkout">>}

IsHealth(t) == pc[t] # "idle" /\ req[t].path = <<"api", "health">> /\ req[t].method = "GET"

\* ----------------------------------------------------- claims, continued

\* C6: whatever the interleaving of writes and reads, the file of a document
\* always holds the complete text of a value the document has held, no
\* request fails on an unreadable document, every Get answers with a value
\* the document has held, and after two Replace requests of one document
\* have both finished the document is the value of one of them.
C6_DocumentsNeverPartial ==
  /\ \A name \in DocNames :
       fs[path(name)].exists =>
         Parse(fs[path(name)].data).ok /\ Parse(fs[path(name)].data).val \in Written(name)
  /\ \A t \in Threads : resp[t].status # 500
  /\ \A t \in Threads :
       IsResource(t, "GET") /\ Served(t) =>
         resp[t].status = 200 /\ resp[t].data \in Written(DocOf(req[t].path[2]))
  /\ \A t, u \in Threads :
       /\ t # u /\ Served(t) /\ Served(u)
       /\ IsResource(t, "POST") /\ IsResource(u, "POST") /\ req[t].path = req[u].path
       => Stored(DocOf(req[t].path[2])) \in {req[t].body, req[u].body}

\* C6 witness: two Replace requests of the stock with different values have
\* finished, and the stock is the first thread's value.
C6_Witness ==
  /\ Served("t1") /\ Served("t2")
  /\ IsResource("t1", "POST") /\ IsResource("t2", "POST")
  /\ req["t1"].path = <<"api", "stock">> /\ req["t2"].path = <<"api", "stock">>
  /\ req["t1"].body # req["t2"].body
  /\ resp["t1"] = Ok200 /\ resp["t2"] = Ok200
  /\ Stored(STOCK) = req["t1"].body

\* C7 (as claimed; refuted): once all requests have finished, the session a
\* PutSession stored for its device is in the sessions document unless
\* another request wrote that same device's record, and the record of a
\* device no request wrote is what it was.
C7_PutSessionKeepsEveryDevice ==
  AllServed =>
    /\ \A t \in Threads :
         /\ IsSession(t, "PUT") /\ resp[t] = Ok200
         /\ \A u \in Threads \ {t} : ~TouchesSession(u, SessionKey(t))
         => /\ SessionKey(t) \in DOMAIN Stored(SESSIONS)
            /\ Stored(SESSIONS)[SessionKey(t)] = req[t].body
    /\ \A d \in DOMAIN Before(SESSIONS) :
         (\A u \in Threads : ~TouchesSession(u, d)) =>
           d \in DOMAIN Stored(SESSIONS) /\ Stored(SESSIONS)[d] = Before(SESSIONS)[d]

\* C8: a request to a data path whose Authorization header holds none of
\* the secrets ends with 401 at the guard and changes no file; one whose
\* header holds a secret anywhere in it is let through to the endpoint.
C8_GuardRejectsWithoutSecret ==
  \A t \in Threads :
    pc[t] \notin {"idle", "before_request"} /\ req[t].path \in DataPaths =>
      IF HasSecret(AuthorizationOf(t))
      THEN resp[t].status # 401
      ELSE Served(t) /\ resp[t].status = 401 /\ wlog[t] = <<>> /\ fs = fs0

\* C8 witness: a Replace of the stock whose header holds the second secret
\* after other text has been served.
C8_Witness ==
  /\ Served("t1") /\ resp["t1"] = Ok200
  /\ req["t1"].path = <<"api", "stock">> /\ req["t1"].method = "POST"
  /\ AuthorizationOf("t1") = <<"Bearer ">> \o VALID_KEYS.pi_02
  /\ Stored(STOCK) = req["t1"].body

\* C9 (as claimed; refuted): GET /api/health without a secret is answered
\* with {ok: true}.
C9_HealthExempt ==
  \A t \in Threads :
    IsHealth(t) /\ Served(t) /\ ~HasSecret(AuthorizationOf(t)) => resp[t] = [status |-> 200, body |-> "ok true"]

\* C9 (amended): GET /api/health is guarded like every /api/ path: without a
\* secret it ends with 401 at the guard, with one it is answered {ok: true}.
C9_HealthGuarded ==
  \A t \in Threads :
    IsHealth(t) /\ pc[t] # "before_request" =>
      IF HasSecret(AuthorizationOf(t))
      THEN Served(t) => resp[t] = [status |-> 200, body |-> "ok true"]
      ELSE Served(t) /\ resp[t].status = 401

\* C9 witness: a health check that carries no Authorization header has been
\* rejected.
C9_Witness ==
  /\ IsHealth("t1") /\ Served("t1")
  /\ "Authorization" \notin DOMAIN req["t1"].headers
  /\ resp["t1"].status = 401

\* C10: GetSession for a device without a stored session answers with
\* exactly the default session and changes no file: the device still has no
\* stored session.
C10_GetSessionDefaultNotStored ==
  \A t \in Threads :
    IsSession(t, "GET") /\ SessionKey(t) # <<>> /\ SessionKey(t) \notin DOMAIN Before(SESSIONS) =>
      /\ fs = fs0
      /\ wlog[t] = <<>>
      /\ SessionKey(t) \notin DOMAIN Stored(SESSIONS)
      /\ pc[t] \in {"before_request", "dispatch", "session", "done"}
      /\ Served(t) => resp[t] = [status |-> 200, body |-> "json", data |-> [cart |-> <<>>, mode |-> "guest", member_id |-> None, last_step |-> "browse"]]

\* C10 witness: the default session has been answered for device d2, which
\* has no stored session.
C10_Witness ==
  /\ IsSession("t1", "GET") /\ Served("t1")
  /\ SessionKey("t1") = D2
  /\ resp["t1"].status = 200 /\ resp["t1"].data.last_step = "browse"
  /\ D2 \notin DOMAIN Stored(SESSIONS)

\* The document stored under name in the file system f.
StoredIn(f, name) == ReadFrom(f, name, DefaultOf(name)).val

\* C11 (as claimed; refuted): no step of a checkout changes the session
\* record of a device other than its own; a checkout whose device has no
\* stored session leaves the sessions document as it is and goes on to
\* answer; one whose device has a session changes nothing of the record but
\* last_step and cart.
C11_CheckoutTouchesOnlyItsSession ==
  [][\A t \in Threads :
       IsCheckout(t) /\ pc'[t] # pc[t] =>
         LET old == StoredIn(fs, SESSIONS)
             new == StoredIn(fs', SESSIONS)
             d == DeviceId(t)
         IN  /\ d \notin DOMAIN old => new = old
             /\ pc[t] = "checkout_session" /\ d \notin DOMAIN old => pc'[t] = "return_ok"
             /\ \A e \in (DOMAIN old \cup DOMAIN new) \ {d} : e \in DOMAIN old /\ e \in DOMAIN new /\ new[e] = old[e]
             /\ d \in DOMAIN old =>
                  d \in DOMAIN new /\ \A k \in DOMAIN old[d] \ {"last_step", "cart"} : new[d][k] = old[d][k]]_vars

\* C12: a GET of the beacon-map, path-nodes, stock or members document that
\* is answered after a POST of the same document has replaced the file, the
\* two being the only requests, answers exactly the body that was posted,
\* whatever the document held before; a GET of a document whose file did
\* not exist at the start and that nobody has replaced answers the default
\* of that document.
C12_ReplaceThenGetRoundTrips ==
  [][\A u \in Threads :
       IsResource(u, "GET") /\ pc[u] \in {"beacons", "pathnodes", "stock", "members"} /\ pc'[u] = "done" =>
         LET n == DocOf(req[u].path[2]) IN
           /\ \A t \in Threads \ {u} :
                IsResource(t, "POST") /\ req[t].path = req[u].path /\ wlog[t] # <<>> =>
                  resp'[u] = [status |-> 200, body |-> "json", data |-> req[t].body]
           /\ ~fs0[path(n)].exists /\ (\A t \in Threads : n \notin WrittenNames(t)) =>
                /\ resp'[u].status = 200
                /\ resp'[u].data = IF n = BEACONS
                                   THEN [beacons |-> <<>>, real_width_m |-> 450, real_height_m |-> 298,
                                         pixel_width |-> 675, pixel_height |-> 437]
                                   ELSE <<>>]_vars

\* A GET of the stock was answered with the list a POST had put in place of
\* a different, non-empty list.
C12_Witness ==
  \E t, u \in Threads :
    /\ IsResource(t, "POST") /\ IsResource(u, "GET") /\ Served(t) /\ Served(u)
    /\ req[t].path = <<"api", "stock">> /\ req[u].path = <<"api", "stock">>
    /\ resp[t] = Ok200
    /\ resp[u].status = 200 /\ resp[u].data = req[t].body
    /\ Before(STOCK) # <<>> /\ Before(STOCK) # req[t].body

\* Whether the query of thread t has no device_id, an empty one, or one of
\* blanks and tabs only.
BlankDevice(t) ==
  LET a == req[t].args IN
    "device_id" \notin DOMAIN a \/ \A i \in 1..Len(a.device_id) : a.device_id[i] \in {" ", "\t"}

\* C13: a GET or PUT of /api/session whose device_id is missing, empty or
\* made of whitespace only never enters a read or a write: no file changes,
\* nothing is replaced, and the answer is status 400 "device_id required".
C13_BlankDeviceIdRejected ==
  \A t \in Threads :
    (IsSession(t, "GET") \/ IsSession(t, "PUT")) /\ BlankDevice(t) =>
      /\ fs = fs0
      /\ wlog[t] = <<>>
      /\ pc[t] \in {"before_request", "dispatch", "session", "done"}
      /\ Served(t) => resp[t] = [status |-> 400, body |-> "device_id required"]

\* A PUT with a device_id of a tab and a blank was answered 400 and the
\* stored sessions are the ones of the start.
C13_Witness ==
  \E t \in Threads :
    /\ IsSession(t, "PUT") /\ Served(t)
    /\ "device_id" \in DOMAIN req[t].args /\ req[t].args.device_id = <<"\t", " ">>
    /\ resp[t].status = 400
    /\ Stored(SESSIONS) = Before(SESSIONS) /\ DOMAIN Before(SESSIONS) # {}

\* Two checkouts that both answered 200 although their carts together ask
\* more of sku than the stock held at the start.
Oversold(t, u, sku) ==
  /\ t # u /\ IsCheckout(t) /\ IsCheckout(u)
  /\ Served(t) /\ Served(u) /\ resp[t] = Ok200 /\ resp[u] = Ok200
  /\ Requested(CartOf(t), sku, Len(CartOf(t))) > 0 /\ Requested(CartOf(u), sku, Len(CartOf(u))) > 0
  /\ Stocked(Before(STOCK), sku)
  /\ Requested(CartOf(t), sku, Len(CartOf(t))) + Requested(CartOf(u), sku, Len(CartOf(u))) > EntryOf(Before(STOCK), sku).qty

\* C14: when two concurrent checkouts of one sku have both succeeded with
\* carts that together exceed the quantity in stock, both validated against
\* the stock of the start: each wrote that stock lowered by its own cart
\* alone, and the stored quantity is the starting one lowered by one of the
\* two carts, not by both. (That such a state is reached is C14_Witness.)
C14_OversellKeepsOneDecrement ==
  \A t, u \in Threads : \A sku \in {"A", "B"} :
    Oversold(t, u, sku) =>
      LET had == EntryOf(Before(STOCK), sku).qty
          want(x) == Requested(CartOf(x), sku, Len(CartOf(x)))
      IN  /\ \A x \in {t, u} : wlog[x][1].name = STOCK /\ EntryOf(wlog[x][1].obj, sku).qty = had - want(x)
          /\ EntryOf(Stored(STOCK), sku).qty \in {had - want(t), had - want(u)}
          /\ EntryOf(Stored(STOCK), sku).qty # had - want(t) - want(u)

\* Both checkouts asked for all of A, both answered 200, and the stock
\* holds one decrement.
C14_Witness ==
  /\ Oversold("t1", "t2", "A")
  /\ Requested(CartOf("t1"), "A", Len(CartOf("t1"))) = EntryOf(Before(STOCK), "A").qty
  /\ Requested(CartOf("t2"), "A", Len(CartOf("t2"))) = EntryOf(Before(STOCK), "A").qty
  /\ EntryOf(Stored(STOCK), "A").qty = 0

\* Thread t is between the opening of the temporary file and the end of
\* os.replace.
InWrite(t) == pc[t] \in {"json_dump", "os_replace"}

\* C15: at most one thread is inside the temp-write-then-replace sequence,
\* whatever the documents; the lock is held by exactly the thread that is
\* inside it and by nobody otherwise; a checkout does not hold it while it
\* reads and validates, between its writes, or once it has answered.
C15_OneWriterLockOnlyAroundWrite ==
  /\ \A t, u \in Threads : InWrite(t) /\ InWrite(u) => t = u
  /\ \A t \in Threads : LOCK = t <=> InWrite(t)
  /\ (\A t \in Threads : ~InWrite(t)) => LOCK = NoThread
  /\ \A t \in Threads :
       IsCheckout(t) /\ pc[t] \in {"checkout", "checkout_members", "checkout_session", "write_json", "return_ok", "done"} =>
         LOCK # t

\* A checkout has replaced the stock and not yet begun its members write,
\* while the other thread holds the lock in the middle of writing another
\* document.
C15_Witness ==
  /\ IsCheckout("t1") /\ pc["t1"] = "checkout_members" /\ WrittenNames("t1") = {STOCK}
  /\ LOCK = "t2" /\ pc["t2"] = "json_dump" /\ wr["t2"].off = 1 /\ wr["t2"].name # STOCK

\* The place of a document in the order of a checkout's writes.
WriteRank(name) == IF name = STOCK THEN 1 ELSE IF name = MEMBERS THEN 2 ELSE 3

\* C16: the files a checkout has replaced so far are, in this order, the
\* stock, then possibly the members, then possibly the sessions; a checkout
\* that is past its stock step (reading members or sessions, writing one of
\* them, or answering 200) has replaced the stock first. So no state, and
\* no crash in it, has this checkout's points or paid session on disk
\* without its stock write.
C16_StockThenMembersThenSessions ==
  \A t \in Threads :
    IsCheckout(t) =>
      /\ wlog[t] # <<>> => wlog[t][1].name = STOCK
      /\ \A i, j \in 1..Len(wlog[t]) : i < j => WriteRank(wlog[t][i].name) < WriteRank(wlog[t][j].name)
      /\ \A i \in 1..Len(wlog[t]) : wlog[t][i].name \in {STOCK, MEMBERS, SESSIONS}
      /\ pc[t] \in {"checkout_members", "checkout_session", "return_ok"} => STOCK \in WrittenNames(t)
      /\ pc[t] \in {"write_json", "json_dump", "os_replace"} /\ wr[t].name # STOCK => STOCK \in WrittenNames(t)
      /\ Served(t) /\ resp[t] = Ok200 => STOCK \in WrittenNames(t)

\* A member's checkout has lowered the stock on disk and is about to
\* replace the members file: the points on disk are still the old ones.
C16_Witness ==
  \E t \in Threads :
    /\ IsCheckout(t) /\ pc[t] = "os_replace" /\ wr[t].name = MEMBERS
    /\ WrittenNames(t) = {STOCK}
    /\ Stored(STOCK) # Before(STOCK)
    /\ Stored(MEMBERS) = Before(MEMBERS) /\ wr[t].obj # Before(MEMBERS)

\* C17 (as claimed; refuted): after a successful checkout served alone the
\* stock document has as many entries as before, each entry has the sku and
\* price it had, and an entry whose sku is not in the cart is unchanged.
C17_CheckoutChangesOnlyCartQuantities ==
  \A t \in Threads :
    IsCheckout(t) /\ Served(t) /\ resp[t] = Ok200 =>
      /\ Len(Stored(STOCK)) = Len(Before(STOCK))
      /\ \A i \in 1..Len(Stored(STOCK)) :
           /\ Stored(STOCK)[i].sku = Before(STOCK)[i].sku
           /\ Stored(STOCK)[i].price = Before(STOCK)[i].price
           /\ (\A k \in 1..Len(CartOf(t)) : CartOf(t)[k].sku # Before(STOCK)[i].sku) =>
                Stored(STOCK)[i] = Before(STOCK)[i]

\* C18: with every thread scheduled fairly, each request that has started
\* is eventually answered; a thread that has been answered, or that waits
\* to enter "with LOCK", does not hold the lock.
C18_EveryRequestCompletes ==
  /\ \A t \in Threads : (pc[t] # "idle") ~> (Served(t) /\ resp[t] # NoResponse)
  /\ [](\A t \in Threads : Served(t) \/ pc[t] = "write_json" => LOCK # t)

\* A checkout waits for the lock for its members write while the other
\* checkout holds it.
C18_Witness ==
  /\ IsCheckout("t1") /\ IsCheckout("t2")
  /\ pc["t1"] = "write_json" /\ wr["t1"].name = MEMBERS
  /\ LOCK = "t2" /\ pc["t2"] = "os_replace"

====
